---- MODULE Spec2Model ----
(***************************************************************************)
(* Cookie-based session middleware (fresh-session).                        *)
(*                                                                         *)
(*   Session           src/src/session.ts                                  *)
(*   CookieStore       src/src/cookie_store.ts (lines 139-232)             *)
(*   session(options)  src/unnamed/part_008 (lines 153-225), middleware    *)
(*                                                                         *)
(* Spec is the middleware serving a client's requests; SpecSession is one   *)
(* Session whose methods are called in any order.                          *)
(*                                                                         *)
(* Time is the JavaScript clock in milliseconds.  A timestamp string       *)
(* (Date.toISOString) is the pair <<seconds, milliseconds>>; expire: null  *)
(* is the empty tuple.  An optional number (expireAfterSeconds) is <<>>    *)
(* when undefined and <<n>> when it is the number n.  Session keys range   *)
(* over ordinary property names (own properties of the data object).       *)
(***************************************************************************)
EXTENDS Integers, Sequences, FiniteSets, TLC

\* ---------------------------------------------------------------- bounds
MaxRequests == 3
MaxOps == 2
MaxSeconds == 2
MaxMillis == 1
MaxCalls == 4
MaxInFlight == 2
MaxRequestOps == 2

\* ------------------------------------------------------ program constants
MinKeyLength == 32
MsPerSecond == 1000

\* ------------------------------------------------------------ input sets
Keys == {"k1", "k2"}
Values == {"x", "y"}
Null == "null"
Undefined == <<>>
ExpireNull == <<>>
Delays == {1, MsPerSecond}
ExpireChoices == {Undefined, <<0>>, <<1>>, <<2>>}
HandlerExpireArgs == {Undefined, <<1>>}
HandlerRefreshArgs == {<<1>>}
GoodKey == [id |-> "server", length |-> 32]
ShortKey == [id |-> "short", length |-> 31]
OtherKey == [id |-> "other", length |-> 32]
DefaultCookieName == "session"

\* ------------------------------------------------------------ Date model
ToISOString(ms) == <<ms \div MsPerSecond, ms % MsPerSecond>>

DateParse(iso) == iso[1] * MsPerSecond + iso[2]

\* Truthiness taking every number, zero included, as set.
Truthy_zeroCounts(n) == n # Undefined

Truthy(n) == n # Undefined /\ n[1] # 0

\* --------------------------------------------------------------- Session
EmptyData == [k \in {} |-> [value |-> Null, flash |-> FALSE]]

EmptyState == [data |-> EmptyData, expire |-> ExpireNull]

Put(data, key, entry) ==
    [k \in DOMAIN data \cup {key} |-> IF k = key THEN entry ELSE data[k]]

Delete(data, key) == [k \in DOMAIN data \ {key} |-> data[k]]

\* calculateExpireDate adding the seconds to the millisecond clock unscaled.
calculateExpireDate_unscaled(now, expirationAfterSeconds) ==
    IF Truthy(expirationAfterSeconds)
    THEN ToISOString(now + expirationAfterSeconds[1])
    ELSE ExpireNull

calculateExpireDate(now, expirationAfterSeconds) ==
    IF Truthy(expirationAfterSeconds)
    THEN ToISOString(now + expirationAfterSeconds[1] * MsPerSecond)
    ELSE ExpireNull

\* reset writing the new expire and leaving data as it was.
reset_keepsData(state, now, expirationAfterSeconds) ==
    [state EXCEPT !.expire = calculateExpireDate(now, expirationAfterSeconds)]

\* reset clearing data and leaving expire as it was.
reset_keepsExpire(state, now, expirationAfterSeconds) ==
    [data |-> EmptyData, expire |-> state.expire]

reset(state, now, expirationAfterSeconds) ==
    [data |-> EmptyData,
     expire |-> calculateExpireDate(now, expirationAfterSeconds)]

\* refresh that also turns the flash entries into ordinary ones.
refresh_clearsFlags(state, now, expirationAfterSeconds) ==
    [data |-> [k \in DOMAIN state.data |-> [state.data[k] EXCEPT !.flash = FALSE]],
     expire |-> calculateExpireDate(now, expirationAfterSeconds)]

\* refresh that also drops the data.
refresh_dropsData(state, now, expirationAfterSeconds) ==
    [data |-> EmptyData,
     expire |-> calculateExpireDate(now, expirationAfterSeconds)]

refresh(state, now, expirationAfterSeconds) ==
    [state EXCEPT !.expire = calculateExpireDate(now, expirationAfterSeconds)]

\* isExpired counting the expire instant itself as expired.
isExpired_atOrAfter(state, now) ==
    state.expire # ExpireNull /\ now >= DateParse(state.expire)

\* isExpired taking a Session without expire for an expired one.
isExpired_nullExpires(state, now) ==
    state.expire = ExpireNull \/ now > DateParse(state.expire)

\* isExpired comparing whole seconds.
isExpired_wholeSeconds(state, now) ==
    state.expire # ExpireNull /\ now \div MsPerSecond > state.expire[1]

isExpired(state, now) ==
    state.expire # ExpireNull /\ now > DateParse(state.expire)

\* get of a flash entry removing every flash entry.
get_consumesAll(state, key) ==
    IF key \in DOMAIN state.data
    THEN [ret |-> state.data[key].value,
          state |-> IF state.data[key].flash
                    THEN [state EXCEPT !.data =
                            [k \in {k \in DOMAIN state.data : ~state.data[k].flash} |->
                                state.data[k]]]
                    ELSE state]
    ELSE [ret |-> Null, state |-> state]

\* get that leaves a flash entry in data.
get_keepsFlash(state, key) ==
    IF key \in DOMAIN state.data
    THEN [ret |-> state.data[key].value, state |-> state]
    ELSE [ret |-> Null, state |-> state]

get(state, key) ==
    IF key \in DOMAIN state.data
    THEN [ret |-> state.data[key].value,
          state |-> IF state.data[key].flash
                    THEN [state EXCEPT !.data = Delete(state.data, key)]
                    ELSE state]
    ELSE [ret |-> Null, state |-> state]

\* set writing the value and keeping the flash flag of the entry it replaces.
set_keepsFlag(state, key, value) ==
    [state EXCEPT !.data =
        Put(state.data, key,
            [value |-> value,
             flash |-> key \in DOMAIN state.data /\ state.data[key].flash])]

\* set storing the entry with the flash flag on.
set_asFlash(state, key, value) ==
    [state EXCEPT !.data = Put(state.data, key, [value |-> value, flash |-> TRUE])]

set(state, key, value) ==
    [state EXCEPT !.data = Put(state.data, key, [value |-> value, flash |-> FALSE])]

flash(state, key, value) ==
    [state EXCEPT !.data = Put(state.data, key, [value |-> value, flash |-> TRUE])]

\* ------------------------------------------------------- JSON and sealing
\* What a Session's state can be: a SessionState, with data and expire; an
\* object without data (it has expire only, null when the property is not
\* there); or a primitive, truthy (a number, a string) or falsy (null, 0).
HasData(state) == "data" \in DOMAIN state

IsPrimitive(state) == "primitive" \in DOMAIN state

IsFalsy(state) == IsPrimitive(state) /\ state.primitive = "falsy"

\* JSON.stringify of a SessionState: the members of data as a set of
\* <<key, value, flash>> triples, and expire; of an object without data:
\* its expire; of a primitive: itself.
JSONStringify(state) ==
    IF HasData(state)
    THEN [valid |-> TRUE,
          members |-> {<<k, state.data[k].value, state.data[k].flash>> :
                          k \in DOMAIN state.data},
          expire |-> state.expire]
    ELSE IF IsPrimitive(state)
         THEN [valid |-> TRUE, primitive |-> state.primitive]
         ELSE [valid |-> TRUE, expire |-> state.expire]

InvalidJson == [valid |-> FALSE, members |-> {}, expire |-> ExpireNull]

\* JSON.parse of a valid text (an invalid one throws: see getSession).
JSONParse(text) ==
    IF "members" \in DOMAIN text
    THEN [data |-> [k \in {m[1] : m \in text.members} |->
                      LET m == CHOOSE m \in text.members : m[1] = k
                      IN [value |-> m[2], flash |-> m[3]]],
          expire |-> text.expire]
    ELSE IF "primitive" \in DOMAIN text
         THEN [primitive |-> text.primitive]
         ELSE [expire |-> text.expire]

\* iron seal: a token that only the same password opens.
encrypt(password, payload) == [kind |-> "sealed", key |-> password.id, text |-> payload]

Garbage == [kind |-> "garbage", key |-> "", text |-> InvalidJson]

\* unseal accepting a token sealed under any password.
DecryptThrows_anyKey(password, token) == token.kind # "sealed"

\* unseal throws unless the token was sealed under the password.
DecryptThrows(password, token) ==
    token.kind # "sealed" \/ token.key # password.id

decrypt(password, token) == token.text

\* ------------------------------------------------------------ CookieStore
NoCookies == [n \in {} |-> Garbage]

CookieStore(options) ==
    [encryptionKey |-> options.encryptionKey,
     cookieOptions |-> IF "cookieOptions" \in DOMAIN options
                       THEN options.cookieOptions
                       ELSE Undefined,
     sessionCookieName |-> IF options.sessionCookieName \in {Undefined, <<"">>}
                            THEN DefaultCookieName
                            ELSE options.sessionCookieName[1]]

NoState == [found |-> FALSE, state |-> EmptyState]

\* getSession parsing the token's text although unsealing failed.
getSession_parsesUnverified(store, cookies) ==
    IF store.sessionCookieName \notin DOMAIN cookies
    THEN NoState
    ELSE LET sessionDataRaw == cookies[store.sessionCookieName].text IN
         IF ~sessionDataRaw.valid
         THEN NoState
         ELSE [found |-> TRUE, state |-> JSONParse(sessionDataRaw)]

\* getSession reading the cookie named "session" whatever the store's name.
getSession_defaultName(store, cookies) ==
    IF DefaultCookieName \notin DOMAIN cookies
    THEN NoState
    ELSE LET sessionCookie == cookies[DefaultCookieName] IN
         IF DecryptThrows(store.encryptionKey, sessionCookie)
         THEN NoState
         ELSE LET sessionDataRaw == decrypt(store.encryptionKey, sessionCookie) IN
              IF ~sessionDataRaw.valid
              THEN NoState
              ELSE [found |-> TRUE, state |-> JSONParse(sessionDataRaw)]

\* getSession: null (NoState) when the cookie is absent, when decrypt throws
\* and when JSON.parse throws.
getSession(store, cookies) ==
    IF store.sessionCookieName \notin DOMAIN cookies
    THEN NoState
    ELSE LET sessionCookie == cookies[store.sessionCookieName] IN
         IF DecryptThrows(store.encryptionKey, sessionCookie)
         THEN NoState
         ELSE LET sessionDataRaw == decrypt(store.encryptionKey, sessionCookie) IN
              IF ~sessionDataRaw.valid
              THEN NoState
              ELSE [found |-> TRUE, state |-> JSONParse(sessionDataRaw)]

\* Headers are a list of <<name, value>> pairs.  A value is a record: a
\* cookie [name, value], or Plain(v) for a header that is not a cookie.
NoToken == [kind |-> "none", key |-> "", text |-> InvalidJson]

Plain(v) == [name |-> v, value |-> NoToken]

HeadersAppend(headers, name, value) == Append(headers, <<name, value>>)

HeadersHas(headers, name) == \E i \in 1..Len(headers) : headers[i][1] = name

\* Headers.set: the first header of that name takes the value and the others
\* of that name are removed; without one, the header is appended.
HeadersSet(headers, name, value) ==
    IF HeadersHas(headers, name)
    THEN LET first == CHOOSE i \in 1..Len(headers) :
                         /\ headers[i][1] = name
                         /\ \A j \in 1..(i - 1) : headers[j][1] # name
             keep(i) == headers[i][1] # name \/ i = first
             idx == {i \in 1..Len(headers) : keep(i)}
             \* positions kept, in order
             nth(n) == CHOOSE i \in idx : Cardinality({j \in idx : j < i}) = n - 1
         IN [n \in 1..Cardinality(idx) |->
               IF nth(n) = first THEN <<name, value>> ELSE headers[nth(n)]]
    ELSE HeadersAppend(headers, name, value)

\* setCookie replacing the Set-Cookie headers already there (Headers.set).
setCookie_replaces(headers, cookie) == HeadersSet(headers, "set-cookie", cookie)

\* setCookie(headers, cookie) of @std/http appends a Set-Cookie header.
setCookie(headers, cookie) == HeadersAppend(headers, "set-cookie", cookie)

\* createSetCookieHeader naming the cookie "session" whatever the store's name.
createSetCookieHeader_defaultName(store, headers, state) ==
    LET serialized == JSONStringify(state)
        cookie == [name |-> DefaultCookieName,
                   value |-> encrypt(store.encryptionKey, serialized)]
    IN setCookie(headers, cookie)

\* { ...object, ...over }: the properties of over win; undefined spreads
\* nothing.
Spread(object, over) ==
    [k \in DOMAIN object \cup DOMAIN over |->
        IF k \in DOMAIN over THEN over[k] ELSE object[k]]

createSetCookieHeader(store, headers, state) ==
    LET serialized == JSONStringify(state)
        cookie == Spread([name |-> store.sessionCookieName,
                          value |-> encrypt(store.encryptionKey, serialized)],
                         store.cookieOptions)
    IN setCookie(headers, cookie)

\* Headers.forEach((value, key) => dst.set(key, value))
RECURSIVE ForEachSet(_, _)
ForEachSet(dst, src) ==
    IF src = <<>>
    THEN dst
    ELSE ForEachSet(HeadersSet(dst, Head(src)[1], Head(src)[2]), Tail(src))

\* ------------------------------------------------------------------ state
VARIABLES
    opts,       \* SessionOptions given to session(options)
    now,        \* Date.now()
    pc,         \* "idle": no request in flight; "handler": inside ctx.next();
                \* "returned": the middleware returned or threw
    nreq,       \* requests received so far
    req,        \* cookies of the request in flight (or of the last one)
    reqTime,    \* Date.now() when the middleware ran its expiration policy
    session,    \* state of the Session instance of the request in flight
    ctx,        \* ctx.state of the request in flight
    log,        \* calls the middleware made for this request, in order
    nops,       \* Session calls downstream handlers have made so far
    hops,       \* Session calls the downstream handler made in this request
    mutated,    \* the downstream handler changed the Session state
    last,       \* last Session call of the downstream handler and its result
    outcome,    \* how the last request ended
    hresp,      \* headers of the response the downstream handler returned
    resp,       \* headers of the response the middleware returned
    jar,        \* the client's cookies
    \* History of what handlers stored, for the properties below.
    stored,     \* key -> value a handler set, not overwritten since, while
                \* every request came with the previous response's cookie,
                \* within expireAfterSeconds of the previous request
    kept,       \* as stored, and no request came with an expired cookie
    flashed,    \* key -> value flashed in this request and not read since
    carried,    \* key -> value flashed in the previous request, unread
    touched,    \* the methods among reset, refresh and setState that
                \* downstream handlers have called so far
    calls,      \* SpecSession: the calls made on the Session, in order
    inflight,   \* SpecConcurrent: request -> where its handler invocation is
    heap,       \* SpecConcurrent: the Session objects constructed so far;
                \* SpecHandle: the state objects created so far
    thisState,  \* SpecHandle: the object this.state of the Session refers to
    handle      \* SpecHandle: the object the last getState() returned

\* The history variables, and the variables of the other specifications.
ghost == <<stored, kept, flashed, carried, touched, calls, inflight, heap,
          thisState, handle>>

vars == <<opts, now, pc, nreq, req, reqTime, session, ctx, log, nops, hops,
          mutated, last, outcome, hresp, resp, jar, stored, kept, flashed,
          carried, touched, calls, inflight, heap, thisState, handle>>

NoCall == [op |-> "none", key |-> "", ret |-> Null, arg |-> Undefined]

OtherCookie ==
    [name |-> "othercookie",
     value |-> [kind |-> "plain", key |-> "somevalue", text |-> InvalidJson]]

\* Headers of the response the downstream handler returns: none, those of
\* the merge test (part_006 lines 237-241), and a Set-Cookie of the handler's
\* own under the session cookie's name.
HandlerHeaders ==
    {<<>>,
     <<<<"key1", Plain("value1")>>, <<"key2", Plain("value2")>>,
       <<"set-cookie", OtherCookie>>>>,
     <<<<"set-cookie", [name |-> DefaultCookieName, value |-> Garbage]>>>>}

\* States a handler may pass to setState.
HandlerStates ==
    {[data |-> Put(EmptyData, "k1", [value |-> "y", flash |-> TRUE]),
      expire |-> ExpireNull]}

Options ==
    {[encryptionKey |-> k, expireAfterSeconds |-> e, sessionCookieName |-> Undefined] :
        k \in {GoodKey, ShortKey}, e \in ExpireChoices}

\* Session cookies a client can hold without the server having set them:
\* none, a corrupted token, a token sealed under another key, and a token
\* sealed under the server's key whose text is not JSON.
CraftedCookies(options) ==
    {NoCookies}
    \cup {[n \in {CookieStore(options).sessionCookieName} |-> t] :
            t \in {Garbage,
                   encrypt(OtherKey, JSONStringify(set(EmptyState, "k1", "x"))),
                   encrypt(options.encryptionKey, InvalidJson)}}

\* The client stores the cookie of that name a response sets (its other
\* cookies play no part).
RECURSIVE StoreCookies(_, _, _)
StoreCookies(cookies, headers, name) ==
    IF headers = <<>>
    THEN cookies
    ELSE StoreCookies(
           IF Head(headers)[1] = "set-cookie" /\ Head(headers)[2].name = name
           THEN [n \in DOMAIN cookies \cup {name} |->
                   IF n = name THEN Head(headers)[2].value ELSE cookies[n]]
           ELSE cookies,
           Tail(headers), name)

\* The cookies of a request that carries the session cookie a CookieStore
\* wrote for state s into empty headers.
CookiesCarrying(store, s) ==
    StoreCookies(NoCookies, createSetCookieHeader(store, <<>>, s),
                 store.sessionCookieName)

NoValues == [k \in {} |-> Null]

Positive(n) == n # Undefined /\ n[1] > 0

\* The expire instant written in a token, in milliseconds (-1: none).
TokenExpire(cookies, name) ==
    IF /\ name \in DOMAIN cookies
       /\ "expire" \in DOMAIN cookies[name].text
       /\ cookies[name].text.expire # ExpireNull
    THEN cookies[name].text.expire[1] * MsPerSecond + cookies[name].text.expire[2]
    ELSE -1

TokenExpired(cookies, name, clock) ==
    TokenExpire(cookies, name) >= 0 /\ clock > TokenExpire(cookies, name)

\* Values a handler has set that are still promised after a Session call.
SetAfter(m, op, key, value) ==
    CASE op = "set" -> Put(m, key, value)
      [] op = "flash" -> Delete(m, key)
      [] op \in {"reset", "setState"} -> NoValues
      [] OTHER -> m

\* Flash values stored in this request and unread after a Session call.
FlashAfter(m, op, key, value) ==
    CASE op = "flash" -> Put(m, key, value)
      [] op \in {"set", "get"} -> Delete(m, key)
      [] op \in {"reset", "setState"} -> NoValues
      [] OTHER -> m

\* Flash values of the previous request still unread after a Session call.
CarriedAfter(m, op, key) ==
    CASE op \in {"flash", "set", "get"} -> Delete(m, key)
      [] op \in {"reset", "setState"} -> NoValues
      [] OTHER -> m

Init ==
    /\ opts \in Options
    /\ now = 0
    /\ pc = "idle"
    /\ nreq = 0
    /\ req = NoCookies
    /\ reqTime = 0
    /\ session = EmptyState
    /\ ctx = [session |-> 0]
    /\ log = <<>>
    /\ nops = 0
    /\ hops = 0
    /\ mutated = FALSE
    /\ last = NoCall
    /\ outcome = "none"
    /\ hresp = <<>>
    /\ resp = <<>>
    /\ jar = NoCookies
    /\ stored = NoValues
    /\ kept = NoValues
    /\ flashed = NoValues
    /\ carried = NoValues
    /\ touched = {}
    /\ calls = <<>>
    /\ inflight = <<>>
    /\ heap = <<>>
    /\ thisState = 0
    /\ handle = 0

\* The policy refreshing every cookie that has not expired, whether or not
\* expireAfterSeconds is set.
policy_keepsUnexpired(store, cookies, clock, expireAfterSeconds) ==
    LET sessionObject == getSession(store, cookies) IN
    IF sessionObject.found
    THEN IF ~isExpired(sessionObject.state, clock)
         THEN [error |-> FALSE, state |-> refresh(sessionObject.state, clock, expireAfterSeconds),
               calls |-> <<<<"getSession", Undefined>>, <<"setState", Undefined>>,
                           <<"refresh", expireAfterSeconds>>>>]
         ELSE [error |-> FALSE, state |-> reset(sessionObject.state, clock, expireAfterSeconds),
               calls |-> <<<<"getSession", Undefined>>, <<"setState", Undefined>>,
                           <<"reset", expireAfterSeconds>>>>]
    ELSE [error |-> FALSE, state |-> reset(EmptyState, clock, expireAfterSeconds),
          calls |-> <<<<"getSession", Undefined>>, <<"reset", expireAfterSeconds>>>>]

\* The policy leaving the expire of an unexpired cookie as it is.
policy_noSlide(store, cookies, clock, expireAfterSeconds) ==
    LET sessionObject == getSession(store, cookies) IN
    IF sessionObject.found
    THEN IF ~isExpired(sessionObject.state, clock) /\ Truthy(expireAfterSeconds)
         THEN [error |-> FALSE, state |-> sessionObject.state,
               calls |-> <<<<"getSession", Undefined>>, <<"setState", Undefined>>,
                           <<"refresh", expireAfterSeconds>>>>]
         ELSE [error |-> FALSE, state |-> reset(sessionObject.state, clock, expireAfterSeconds),
               calls |-> <<<<"getSession", Undefined>>, <<"setState", Undefined>>,
                           <<"reset", expireAfterSeconds>>>>]
    ELSE [error |-> FALSE, state |-> reset(EmptyState, clock, expireAfterSeconds),
          calls |-> <<<<"getSession", Undefined>>, <<"reset", expireAfterSeconds>>>>]

\* The policy refreshing a decoded cookie without asking whether it expired.
policy_skipsIsExpired(store, cookies, clock, expireAfterSeconds) ==
    LET sessionObject == getSession(store, cookies) IN
    IF sessionObject.found
    THEN IF Truthy(expireAfterSeconds)
         THEN [error |-> FALSE, state |-> refresh(sessionObject.state, clock, expireAfterSeconds),
               calls |-> <<<<"getSession", Undefined>>, <<"setState", Undefined>>,
                           <<"refresh", expireAfterSeconds>>>>]
         ELSE [error |-> FALSE, state |-> reset(sessionObject.state, clock, expireAfterSeconds),
               calls |-> <<<<"getSession", Undefined>>, <<"setState", Undefined>>,
                           <<"reset", expireAfterSeconds>>>>]
    ELSE [error |-> FALSE, state |-> reset(EmptyState, clock, expireAfterSeconds),
          calls |-> <<<<"getSession", Undefined>>, <<"reset", expireAfterSeconds>>>>]

\* The expiration policy of the middleware (part_008 lines 189-204): the
\* Session state it leaves and the calls it makes.
policy(store, cookies, clock, expireAfterSeconds) ==
    LET sessionObject == getSession(store, cookies)
        expired == /\ ~IsPrimitive(sessionObject.state)
                   /\ isExpired(sessionObject.state, clock)
    IN
    IF sessionObject.found /\ ~IsFalsy(sessionObject.state)
    THEN IF ~expired /\ Truthy(expireAfterSeconds)
         THEN [error |-> IsPrimitive(sessionObject.state),
               state |-> IF IsPrimitive(sessionObject.state)
                         THEN sessionObject.state
                         ELSE refresh(sessionObject.state, clock, expireAfterSeconds),
               calls |-> <<<<"getSession", Undefined>>, <<"setState", Undefined>>,
                           <<"refresh", expireAfterSeconds>>>>]
         ELSE [error |-> FALSE, state |-> reset(sessionObject.state, clock, expireAfterSeconds),
               calls |-> <<<<"getSession", Undefined>>, <<"setState", Undefined>>,
                           <<"reset", expireAfterSeconds>>>>]
    ELSE [error |-> FALSE, state |-> reset(EmptyState, clock, expireAfterSeconds),
          calls |-> <<<<"getSession", Undefined>>, <<"reset", expireAfterSeconds>>>>]

\* The key check off by one.
KeyTooShort_offByOne(encryptionKey) == encryptionKey.length < MinKeyLength - 1

KeyTooShort(encryptionKey) == encryptionKey.length < MinKeyLength

\* The context object: the fields the framework set, and state.session
\* (the request whose Session is attached, 0 for none).
NoFields == [f \in {} |-> ""]

Context(fields, attached) ==
    [f \in DOMAIN fields \cup {"session"} |->
        IF f = "session" THEN attached ELSE fields[f]]

\* The middleware handler up to ctx.next(), for a context with those fields
\* (part_008 lines 163-210, and lines 42-84 of the plugin variant).
Serve(fields) ==
    /\ pc = "idle"
    /\ nreq < MaxRequests
    /\ nreq' = nreq + 1
    /\ req' = jar
    /\ reqTime' = now
    /\ IF KeyTooShort(opts.encryptionKey)
       THEN /\ outcome' = "keyerror"
            /\ pc' = "returned"
            /\ log' = <<>>
            /\ ctx' = Context(fields, 0)
            /\ UNCHANGED session
       ELSE LET p == policy(CookieStore(opts), jar, now, opts.expireAfterSeconds) IN
            IF p.error
            THEN /\ outcome' = "typeerror"
                 /\ pc' = "returned"
                 /\ session' = p.state
                 /\ ctx' = Context(fields, 0)
                 /\ log' = p.calls
            ELSE /\ outcome' = "pending"
                 /\ pc' = "handler"
                 /\ session' = p.state
                 /\ ctx' = Context(fields, nreq + 1)
                 /\ log' = p.calls \o <<<<"attach", Undefined>>, <<"next", Undefined>>>>
    /\ LET name == CookieStore(opts).sessionCookieName
           late == IF Positive(opts.expireAfterSeconds)
                   THEN now > reqTime + opts.expireAfterSeconds[1] * MsPerSecond
                   ELSE TRUE
           expired == TokenExpired(jar, name, now)
       IN /\ stored' = IF late THEN NoValues ELSE stored
          /\ kept' = IF late \/ expired THEN NoValues ELSE kept
          /\ carried' = IF expired THEN NoValues ELSE carried
    /\ UNCHANGED <<opts, now, nops, hops, mutated, last, hresp, resp, jar, flashed,
                   touched, calls, inflight, heap, thisState, handle>>

\* session(options): the context has no destination.
MiddlewareEnter == Serve(NoFields)

Called(op, key, r) == [op |-> op, key |-> key, ret |-> r, arg |-> Undefined]

\* The downstream handler's calls on ctx.state.session.
HandlerCall(op, key, value, r, state) ==
    /\ pc = "handler"
    /\ nops < MaxOps
    /\ nops' = nops + 1
    /\ hops' = hops + 1
    /\ session' = state
    /\ mutated' = (mutated \/ state # session)
    /\ last' = [Called(op, key, r) EXCEPT
                   !.arg = IF op \in {"reset", "refresh"} THEN value ELSE Undefined]
    /\ stored' = IF Positive(opts.expireAfterSeconds)
                 THEN SetAfter(stored, op, key, value) ELSE stored
    /\ kept' = IF Positive(opts.expireAfterSeconds)
               THEN SetAfter(kept, op, key, value) ELSE kept
    /\ flashed' = FlashAfter(flashed, op, key, value)
    /\ carried' = CarriedAfter(carried, op, key)
    /\ touched' = touched \cup ({op} \cap {"reset", "refresh", "setState"})
    /\ UNCHANGED <<opts, now, pc, nreq, req, reqTime, ctx, log, outcome, hresp, resp,
                   jar, calls, inflight, heap, thisState, handle>>

NextGet(k) ==
    /\ HasData(session)
    /\ HandlerCall("get", k, Null, get(session, k).ret, get(session, k).state)

NextSet(k, v) ==
    /\ HasData(session)
    /\ HandlerCall("set", k, v, Null, set(session, k, v))

NextFlash(k, v) ==
    /\ HasData(session)
    /\ HandlerCall("flash", k, v, Null, flash(session, k, v))

\* get, set or flash on a Session whose state has no data: reading
\* this.state.data[key] throws a TypeError, which ends the handler.
NextTypeError(op, k) ==
    /\ pc = "handler"
    /\ ~HasData(session)
    /\ nops < MaxOps
    /\ nops' = nops + 1
    /\ hops' = hops + 1
    /\ last' = Called(op, k, "TypeError")
    /\ pc' = "returned"
    /\ outcome' = "handlererror"
    /\ UNCHANGED <<opts, now, nreq, req, reqTime, session, ctx, log, mutated, hresp,
                   resp, jar, ghost>>

NextReset(e) == HandlerCall("reset", "", e, Null, reset(session, now, e))

NextRefresh(e) == HandlerCall("refresh", "", e, Null, refresh(session, now, e))

NextSetState(s) == HandlerCall("setState", "", Null, Null, s)

\* The write-back encoding a new, empty Session instead of the attached one.
writeBack_newSession(store, respHeaders, state) ==
    ForEachSet(respHeaders, createSetCookieHeader(store, <<>>, EmptyState))

\* The write-back of the middleware (part_008 lines 212-221).
writeBack(store, respHeaders, state) ==
    ForEachSet(respHeaders, createSetCookieHeader(store, <<>>, state))

\* The handler's error caught long enough to write the cookie.
HandlerThrow_writesCookie ==
    /\ pc = "handler"
    /\ pc' = "returned"
    /\ outcome' = "handlererror"
    /\ resp' = writeBack(CookieStore(opts), <<>>, session)
    /\ log' = log \o <<<<"createSetCookieHeader", Undefined>>>>
    /\ UNCHANGED <<opts, now, nreq, req, reqTime, session, ctx, nops, hops,
                   mutated, last, hresp, jar, ghost>>

\* The downstream handler throws: the middleware does not catch it.
HandlerThrow ==
    /\ pc = "handler"
    /\ pc' = "returned"
    /\ outcome' = "handlererror"
    /\ UNCHANGED <<opts, now, nreq, req, reqTime, session, ctx, log, nops, hops,
                   mutated, last, hresp, resp, jar, ghost>>

\* The middleware writing the cookie only when the handler changed the
\* Session.
MiddlewareExit_onlyWhenChanged(handlerHeaders) ==
    /\ pc = "handler"
    /\ pc' = "returned"
    /\ outcome' = "responded"
    /\ hresp' = handlerHeaders
    /\ resp' = IF mutated
               THEN writeBack(CookieStore(opts), handlerHeaders, session)
               ELSE handlerHeaders
    /\ log' = log \o <<<<"createSetCookieHeader", Undefined>>, <<"return", Undefined>>>>
    /\ UNCHANGED <<opts, now, nreq, req, reqTime, session, ctx, nops, hops, mutated,
                   last, jar, ghost>>

\* The middleware encoding the state its policy left, as read before the
\* handler ran.
MiddlewareExit_encodesEarly(handlerHeaders) ==
    /\ pc = "handler"
    /\ pc' = "returned"
    /\ outcome' = "responded"
    /\ hresp' = handlerHeaders
    /\ resp' = writeBack(CookieStore(opts), handlerHeaders,
                         policy(CookieStore(opts), req, reqTime,
                                opts.expireAfterSeconds).state)
    /\ log' = log \o <<<<"createSetCookieHeader", Undefined>>, <<"return", Undefined>>>>
    /\ UNCHANGED <<opts, now, nreq, req, reqTime, session, ctx, nops, hops, mutated,
                   last, jar, ghost>>

\* ctx.next() returns a response; the middleware writes the cookie and
\* returns it (part_008 lines 210-223), and the client stores its cookies.
MiddlewareExit(handlerHeaders) ==
    /\ pc = "handler"
    /\ pc' = "returned"
    /\ outcome' = "responded"
    /\ hresp' = handlerHeaders
    /\ resp' = writeBack(CookieStore(opts), handlerHeaders, session)
    /\ log' = log \o <<<<"createSetCookieHeader", Undefined>>, <<"return", Undefined>>>>
    /\ UNCHANGED <<opts, now, nreq, req, reqTime, session, ctx, nops, hops, mutated,
                   last, jar, ghost>>

\* The client receives the outcome and stores the session cookie of the
\* response, if there is one; the request's context is dropped.
Receive ==
    /\ pc = "returned"
    /\ pc' = "idle"
    /\ jar' = StoreCookies(jar, resp, CookieStore(opts).sessionCookieName)
    /\ req' = NoCookies
    /\ session' = EmptyState
    /\ ctx' = [session |-> 0]
    /\ log' = <<>>
    /\ hops' = 0
    /\ mutated' = FALSE
    /\ last' = NoCall
    /\ outcome' = "none"
    /\ hresp' = <<>>
    /\ resp' = <<>>
    /\ stored' = IF outcome = "responded" THEN stored ELSE NoValues
    /\ kept' = IF outcome = "responded" THEN kept ELSE NoValues
    /\ carried' = IF outcome = "responded" THEN flashed ELSE NoValues
    /\ flashed' = NoValues
    /\ UNCHANGED <<opts, now, nreq, nops, reqTime, touched, calls, inflight, heap,
                   thisState, handle>>

\* The client's session cookie is lost or replaced by a crafted one.
Tamper(cookies) ==
    /\ pc = "idle"
    /\ nreq < MaxRequests
    /\ jar # cookies
    /\ jar' = cookies
    /\ stored' = NoValues
    /\ kept' = NoValues
    /\ carried' = NoValues
    /\ UNCHANGED <<opts, now, pc, nreq, req, reqTime, session, ctx, log, nops, hops,
                   mutated, last, outcome, hresp, resp, flashed, touched, calls,
                   inflight, heap, thisState, handle>>

\* Time passes, between requests or while the downstream handler runs.
Tick(d) ==
    /\ pc = "idle" \/ (pc = "handler" /\ hops = 0)
    /\ (now + d) \div MsPerSecond <= MaxSeconds
    /\ (now + d) % MsPerSecond <= MaxMillis
    /\ now' = now + d
    /\ UNCHANGED <<opts, pc, nreq, req, reqTime, session, ctx, log, nops, hops,
                   mutated, last, outcome, hresp, resp, jar, ghost>>

Next ==
    \/ MiddlewareEnter
    \/ \E c \in CraftedCookies(opts) : Tamper(c)
    \/ \E k \in Keys : NextGet(k)
    \/ \E k \in Keys, v \in Values : NextSet(k, v)
    \/ \E k \in Keys, v \in Values : NextFlash(k, v)
    \/ \E e \in HandlerExpireArgs : NextReset(e)
    \/ \E e \in HandlerRefreshArgs : NextRefresh(e)
    \/ \E s \in HandlerStates : NextSetState(s)
    \/ HandlerThrow
    \/ \E h \in HandlerHeaders : MiddlewareExit(h)
    \/ Receive
    \/ \E d \in Delays : Tick(d)

Spec == Init /\ [][Next]_vars

\* ------------------------------------------------- one Session on its own
\* A Session is constructed, with or without a state, and its methods are
\* called in any order (session.ts lines 34-141).
SessionStates ==
    {EmptyState,
     [data |-> Put(EmptyData, "k1", [value |-> "x", flash |-> FALSE]),
      expire |-> ExpireNull],
     [data |-> Put(EmptyData, "k2", [value |-> "y", flash |-> TRUE]),
      expire |-> ToISOString(MsPerSecond)]}

\* Clock values at which the Session is used, around the expire instant of
\* the last of SessionStates.
SessionClocks == {0, MsPerSecond - 1, MsPerSecond, MsPerSecond + 1}

\* Arguments of reset and refresh: omitted, zero, positive, negative.
SessionResetArgs == {Undefined, <<0>>, <<1>>, <<-1>>}

SessionRefreshArgs == {<<1>>, <<-1>>}

\* A call on the Session: the method, its key and value (for reset and
\* refresh the seconds passed, for isExpired the expire it read), what it
\* returned and the keys it stored.
Call(op, key, value, r, keys) ==
    [op |-> op, key |-> key, value |-> value, ret |-> r, keys |-> keys]

InitSession ==
    /\ opts = [encryptionKey |-> GoodKey, expireAfterSeconds |-> Undefined,
               sessionCookieName |-> Undefined]
    /\ now \in SessionClocks
    /\ pc = "session"
    /\ nreq = 0
    /\ req = NoCookies
    /\ reqTime = 0
    /\ session \in SessionStates
    /\ ctx = [session |-> 0]
    /\ log = <<>>
    /\ nops = 0
    /\ hops = 0
    /\ mutated = FALSE
    /\ last = NoCall
    /\ outcome = "none"
    /\ hresp = <<>>
    /\ resp = <<>>
    /\ jar = NoCookies
    /\ stored = NoValues
    /\ kept = NoValues
    /\ flashed = NoValues
    /\ carried = NoValues
    /\ touched = {}
    /\ calls = <<Call("new", "", Null, Null, DOMAIN session.data)>>
    /\ inflight = <<>>
    /\ heap = <<>>
    /\ thisState = 0
    /\ handle = 0

SessionCall(op, key, value, r, keys, state) ==
    /\ Len(calls) <= MaxCalls
    /\ session' = state
    /\ calls' = Append(calls, Call(op, key, value, r, keys))
    /\ UNCHANGED <<opts, now, pc, nreq, req, reqTime, ctx, log, nops, hops, mutated,
                   last, outcome, hresp, resp, jar, stored, kept, flashed, carried,
                   touched, inflight, heap, thisState, handle>>

SessionGet(k) ==
    SessionCall("get", k, Null, get(session, k).ret, {}, get(session, k).state)

SessionSet(k, v) == SessionCall("set", k, v, Null, {k}, set(session, k, v))

SessionFlash(k, v) == SessionCall("flash", k, v, Null, {k}, flash(session, k, v))

SessionReset(e) == SessionCall("reset", "", e, Null, {}, reset(session, now, e))

SessionRefresh(e) ==
    SessionCall("refresh", "", e, Null, {}, refresh(session, now, e))

SessionIsExpired ==
    SessionCall("isExpired", "", session.expire, isExpired(session, now), {}, session)

SessionSetState(s) == SessionCall("setState", "", Null, Null, DOMAIN s.data, s)

NextSession ==
    \/ \E k \in Keys : SessionGet(k)
    \/ \E k \in Keys, v \in Values : SessionSet(k, v)
    \/ \E k \in Keys, v \in Values : SessionFlash(k, v)
    \/ \E e \in SessionResetArgs : SessionReset(e)
    \/ \E e \in SessionRefreshArgs : SessionRefresh(e)
    \/ \E s \in HandlerStates : SessionSetState(s)
    \/ SessionIsExpired

SpecSession == InitSession /\ [][NextSession]_vars

\* ------------------------------------------- the state object of a Session
\* getState returns the object this.state refers to, not a copy of it
\* (session.ts lines 59-61). heap[ref] is the content of the state object
\* ref; session is the content of the object this.state refers to.

\* Clock values at which the Session is used.
HandleClocks == {0, MsPerSecond}

\* refresh assigning a new object, as reset does.
Replaces_refreshToo(op) == op \in {"reset", "setState", "refresh"}

\* The methods that assign a new object to this.state (session.ts lines
\* 50-52 and 68-73); get, set, flash and refresh assign into the object it
\* refers to (lines 80-84, 102-141).
Replaces(op) == op \in {"reset", "setState"}

InitHandle ==
    /\ opts = [encryptionKey |-> GoodKey, expireAfterSeconds |-> Undefined,
               sessionCookieName |-> Undefined]
    /\ now \in HandleClocks
    /\ pc = "session"
    /\ nreq = 0
    /\ req = NoCookies
    /\ reqTime = 0
    /\ session \in SessionStates
    /\ ctx = [session |-> 0]
    /\ log = <<>>
    /\ nops = 0
    /\ hops = 0
    /\ mutated = FALSE
    /\ last = NoCall
    /\ outcome = "none"
    /\ hresp = <<>>
    /\ resp = <<>>
    /\ jar = NoCookies
    /\ stored = NoValues
    /\ kept = NoValues
    /\ flashed = NoValues
    /\ carried = NoValues
    /\ touched = {}
    /\ calls = <<Call("new", "", Null, Null, DOMAIN session.data)>>
    /\ inflight = <<>>
    /\ heap = <<session>>
    /\ thisState = 1
    /\ handle = 0

HandleCall(op, key, value, r, state) ==
    /\ Len(calls) <= MaxCalls
    /\ IF Replaces(op)
       THEN /\ heap' = Append(heap, state)
            /\ thisState' = Len(heap) + 1
       ELSE /\ heap' = [heap EXCEPT ![thisState] = state]
            /\ thisState' = thisState
    /\ session' = state
    /\ calls' = Append(calls, Call(op, key, value, r, {}))
    /\ UNCHANGED <<opts, now, pc, nreq, req, reqTime, ctx, log, nops, hops, mutated,
                   last, outcome, hresp, resp, jar, stored, kept, flashed, carried,
                   touched, inflight, handle>>

HandleGet(k) ==
    HandleCall("get", k, Null, get(session, k).ret, get(session, k).state)

HandleSet(k, v) == HandleCall("set", k, v, Null, set(session, k, v))

HandleFlash(k, v) == HandleCall("flash", k, v, Null, flash(session, k, v))

HandleReset(e) == HandleCall("reset", "", e, Null, reset(session, now, e))

HandleRefresh(e) == HandleCall("refresh", "", e, Null, refresh(session, now, e))

HandleSetState(s) == HandleCall("setState", "", Null, Null, s)

\* const state = session.getState()
HandleGetState ==
    /\ Len(calls) <= MaxCalls
    /\ handle' = thisState
    /\ calls' = Append(calls, Call("getState", "", Null, Null, {}))
    /\ UNCHANGED <<opts, now, pc, nreq, req, reqTime, session, ctx, log, nops, hops,
                   mutated, last, outcome, hresp, resp, jar, stored, kept, flashed,
                   carried, touched, inflight, heap, thisState>>

NextHandle ==
    \/ \E k \in Keys : HandleGet(k)
    \/ \E k \in Keys, v \in Values : HandleSet(k, v)
    \/ \E k \in Keys, v \in Values : HandleFlash(k, v)
    \/ \E e \in HandlerExpireArgs : HandleReset(e)
    \/ \E e \in HandlerRefreshArgs : HandleRefresh(e)
    \/ \E s \in HandlerStates : HandleSetState(s)
    \/ HandleGetState

SpecHandle == InitHandle /\ [][NextHandle]_vars

\* ---------------------------------------------------- the plugin variant
\* sessionMiddleware(options) (part_008 lines 33-99) is given the
\* framework's context, whose destination says what the request is for; for
\* a route it does what session(options) does.
Destinations == {"route", "static", "notFound"}

\* The destination check left out.
PluginEnter_noCheck(d) == Serve([destination |-> d])

\* sessionMiddleware handler up to ctx.next() (part_008 lines 37-84).
PluginEnter(d) ==
    IF d # "route"
    THEN /\ pc = "idle"
         /\ nreq < MaxRequests
         /\ nreq' = nreq + 1
         /\ req' = jar
         /\ pc' = "passthrough"
         /\ outcome' = "pending"
         /\ ctx' = Context([destination |-> d], 0)
         /\ log' = <<<<"next", Undefined>>>>
         /\ UNCHANGED <<opts, now, reqTime, session, nops, hops, mutated, last, hresp,
                        resp, jar, ghost>>
    ELSE Serve([destination |-> d])

\* ctx.next() returns for a request that is not for a route: its response
\* is what the middleware returns (part_008 line 39).
PluginSkipExit(handlerHeaders) ==
    /\ pc = "passthrough"
    /\ pc' = "returned"
    /\ outcome' = "skipped"
    /\ hresp' = handlerHeaders
    /\ resp' = handlerHeaders
    /\ log' = log \o <<<<"return", Undefined>>>>
    /\ UNCHANGED <<opts, now, nreq, req, reqTime, session, ctx, nops, hops, mutated,
                   last, jar, ghost>>

NextPlugin ==
    \/ \E d \in Destinations : PluginEnter(d)
    \/ \E h \in HandlerHeaders : PluginSkipExit(h)
    \/ \E k \in Keys : NextGet(k)
    \/ \E k \in Keys, v \in Values : NextSet(k, v)
    \/ HandlerThrow
    \/ \E h \in HandlerHeaders : MiddlewareExit(h)
    \/ Receive
    \/ \E d \in Delays : Tick(d)

SpecPlugin == Init /\ [][NextPlugin]_vars

\* ------------------------------------------------- requests in flight at once
\* Several invocations of the handler session(options) returns run at once
\* and take turns at its await points (part_008 lines 192, 210, 213):
\* getSession, ctx.next() and createSetCookieHeader.  Sessions are objects:
\* heap[ref] is the state of the Session with reference ref.
Requests == 1..MaxInFlight

ConcurrentOptions ==
    {[encryptionKey |-> GoodKey, expireAfterSeconds |-> e,
      sessionCookieName |-> Undefined] : e \in {Undefined, <<1>>}}

\* The state in a cookie the server issued earlier: a non-flash and a flash
\* entry, expiring one second after the clock's start.
IssuedState ==
    [data |-> Put(Put(EmptyData, "k1", [value |-> "x", flash |-> FALSE]),
                  "k2", [value |-> "y", flash |-> TRUE]),
     expire |-> ToISOString(MsPerSecond)]

\* A request: where its invocation is (pc), its cookies (req), the reference
\* ctx.state.session holds (ref, 0 for none), the handler's calls on it and
\* their results (hist), the state the middleware serialized (sealing), the
\* response's headers (resp); and what a Session used by this request alone
\* would hold (own) and return (solo).
IdleRequest ==
    [pc |-> "idle", req |-> NoCookies, ref |-> 0, hist |-> <<>>,
     sealing |-> EmptyState, resp |-> <<>>, own |-> EmptyState, solo |-> <<>>]

\* Cookies a client can present: none, the cookie issued earlier, and the
\* cookie of a response already returned.
ClientJars ==
    {NoCookies, CookiesCarrying(CookieStore(opts), IssuedState)}
    \cup {StoreCookies(NoCookies, inflight[q].resp, CookieStore(opts).sessionCookieName) :
             q \in {q \in Requests : inflight[q].pc = "returned"}}

sequential ==
    <<opts, now, pc, nreq, req, reqTime, session, ctx, log, nops, hops, mutated,
      last, outcome, hresp, resp, jar, stored, kept, flashed, carried, touched,
      calls, thisState, handle>>

InitConcurrent ==
    /\ opts \in ConcurrentOptions
    /\ now = 0
    /\ pc = "concurrent"
    /\ nreq = 0
    /\ req = NoCookies
    /\ reqTime = 0
    /\ session = EmptyState
    /\ ctx = [session |-> 0]
    /\ log = <<>>
    /\ nops = 0
    /\ hops = 0
    /\ mutated = FALSE
    /\ last = NoCall
    /\ outcome = "none"
    /\ hresp = <<>>
    /\ resp = <<>>
    /\ jar = NoCookies
    /\ stored = NoValues
    /\ kept = NoValues
    /\ flashed = NoValues
    /\ carried = NoValues
    /\ touched = {}
    /\ calls = <<>>
    /\ inflight = [r \in Requests |-> IdleRequest]
    /\ heap = <<>>
    /\ thisState = 0
    /\ handle = 0

\* One Session object for all invocations.
NewSession_shared(objects) == 1

\* new Session(): a reference no other object has.
NewSession(objects) == Len(objects) + 1

\* The heap with the object at ref constructed in state s.
Construct(objects, ref, s) ==
    [i \in (DOMAIN objects) \cup {ref} |-> IF i = ref THEN s ELSE objects[i]]

\* The invocation up to "await store.getSession(req)" (part_008 lines
\* 166-192): the key check, a CookieStore and a Session of its own.
ConcurrentEnter(r, cookies) ==
    /\ inflight[r].pc = "idle"
    /\ ~KeyTooShort(opts.encryptionKey)
    /\ LET ref == NewSession(heap) IN
       /\ heap' = Construct(heap, ref, EmptyState)
       /\ inflight' = [inflight EXCEPT ![r].pc = "unsealing",
                                       ![r].req = cookies,
                                       ![r].ref = ref]
    /\ UNCHANGED sequential

\* getSession resolves; the policy runs, the Session is attached and
\* ctx.next() is called (part_008 lines 192-210).
ConcurrentDecoded(r) ==
    /\ inflight[r].pc = "unsealing"
    /\ LET p == policy(CookieStore(opts), inflight[r].req, now, opts.expireAfterSeconds) IN
       /\ heap' = [heap EXCEPT ![inflight[r].ref] = p.state]
       /\ inflight' = [inflight EXCEPT ![r].pc = "handler", ![r].own = p.state]
    /\ UNCHANGED sequential

\* The handler of request r calls a method of ctx.state.session.
ConcurrentCall(r, op, key, ret, state, soloRet, soloState) ==
    /\ inflight[r].pc = "handler"
    /\ Len(inflight[r].hist) < MaxRequestOps
    /\ heap' = [heap EXCEPT ![inflight[r].ref] = state]
    /\ inflight' = [inflight EXCEPT ![r].hist = Append(@, <<op, key, ret>>),
                                    ![r].solo = Append(@, soloRet),
                                    ![r].own = soloState]
    /\ UNCHANGED sequential

ConcurrentGet(r, k) ==
    LET mine == heap[inflight[r].ref]
        alone == inflight[r].own
    IN ConcurrentCall(r, "get", k, get(mine, k).ret, get(mine, k).state,
                      get(alone, k).ret, get(alone, k).state)

ConcurrentSet(r, k, v) ==
    ConcurrentCall(r, "set", k, Null, set(heap[inflight[r].ref], k, v),
                   Null, set(inflight[r].own, k, v))

ConcurrentFlash(r, k, v) ==
    ConcurrentCall(r, "flash", k, Null, flash(heap[inflight[r].ref], k, v),
                   Null, flash(inflight[r].own, k, v))

ConcurrentReset(r, e) ==
    ConcurrentCall(r, "reset", "", Null, reset(heap[inflight[r].ref], now, e),
                   Null, reset(inflight[r].own, now, e))

ConcurrentRefresh(r, e) ==
    ConcurrentCall(r, "refresh", "", Null, refresh(heap[inflight[r].ref], now, e),
                   Null, refresh(inflight[r].own, now, e))

\* ctx.next() resolves; the middleware serializes the Session's state and
\* awaits the sealing (part_008 lines 210-216, cookie_store.ts lines 219-223).
ConcurrentHandlerReturn(r) ==
    /\ inflight[r].pc = "handler"
    /\ inflight' = [inflight EXCEPT ![r].pc = "sealing",
                                    ![r].sealing = heap[inflight[r].ref]]
    /\ UNCHANGED <<sequential, heap>>

\* The sealing resolves; the cookie is written to the response, which is
\* returned (part_008 lines 213-223).
ConcurrentExit(r) ==
    /\ inflight[r].pc = "sealing"
    /\ inflight' = [inflight EXCEPT ![r].pc = "returned",
                                    ![r].resp = writeBack(CookieStore(opts), <<>>,
                                                          inflight[r].sealing)]
    /\ UNCHANGED <<sequential, heap>>

NextConcurrent ==
    \E r \in Requests :
        \/ \E c \in ClientJars : ConcurrentEnter(r, c)
        \/ ConcurrentDecoded(r)
        \/ \E k \in Keys : ConcurrentGet(r, k)
        \/ \E k \in Keys : ConcurrentSet(r, k, "y")
        \/ \E k \in Keys : ConcurrentFlash(r, k, "x")
        \/ ConcurrentReset(r, Undefined)
        \/ ConcurrentRefresh(r, <<2>>)
        \/ ConcurrentHandlerReturn(r)
        \/ ConcurrentExit(r)

SpecConcurrent == InitConcurrent /\ [][NextConcurrent]_vars

\* ------------------------------------------------ any cookie value at all
\* The middleware serving requests whose session cookie may hold any value:
\* also one sealed under the server's key whose text is JSON that is not a
\* SessionState.
DecodeOptions ==
    {[encryptionKey |-> GoodKey, expireAfterSeconds |-> e,
      sessionCookieName |-> Undefined] : e \in ExpireChoices}

\* JSON texts that are not a SessionState: "{}", a number or a string, null.
OtherJson ==
    {[valid |-> TRUE, expire |-> ExpireNull],
     [valid |-> TRUE, primitive |-> "truthy"],
     [valid |-> TRUE, primitive |-> "falsy"]}

IncomingCookies(options) ==
    CraftedCookies(options)
    \cup {CookiesCarrying(CookieStore(options), IssuedState)}
    \cup {[n \in {CookieStore(options).sessionCookieName} |->
              encrypt(options.encryptionKey, text)] : text \in OtherJson}

InitDecode ==
    /\ opts \in DecodeOptions
    /\ now = 0
    /\ pc = "idle"
    /\ nreq = 0
    /\ req = NoCookies
    /\ reqTime = 0
    /\ session = EmptyState
    /\ ctx = [session |-> 0]
    /\ log = <<>>
    /\ nops = 0
    /\ hops = 0
    /\ mutated = FALSE
    /\ last = NoCall
    /\ outcome = "none"
    /\ hresp = <<>>
    /\ resp = <<>>
    /\ jar \in IncomingCookies(opts)
    /\ stored = NoValues
    /\ kept = NoValues
    /\ flashed = NoValues
    /\ carried = NoValues
    /\ touched = {}
    /\ calls = <<>>
    /\ inflight = <<>>
    /\ heap = <<>>
    /\ thisState = 0
    /\ handle = 0

NextDecode ==
    \/ MiddlewareEnter
    \/ \E k \in Keys : NextGet(k)
    \/ \E k \in Keys, v \in Values : NextSet(k, v)
    \/ \E k \in Keys, v \in Values : NextFlash(k, v)
    \/ \E op \in {"get", "set", "flash"}, k \in Keys : NextTypeError(op, k)
    \/ \E h \in HandlerHeaders : MiddlewareExit(h)
    \/ Receive
    \/ \E d \in Delays : Tick(d)

SpecDecode == InitDecode /\ [][NextDecode]_vars

\* ------------------------------------------------------ cookie options
\* The middleware configured with cookieOptions: none, the attributes of
\* the test (part_011 lines 174-194), and objects that also hold a name or
\* a value, which the type CookieOptions leaves out and the constructor
\* does not remove.
CookieOptionChoices ==
    {Undefined,
     [path |-> "/test", secure |-> TRUE, sameSite |-> "Strict"],
     [path |-> "/", name |-> "othercookie"],
     [secure |-> TRUE, value |-> OtherCookie.value]}

CookieOptionOptions ==
    {[encryptionKey |-> GoodKey, expireAfterSeconds |-> Undefined,
      sessionCookieName |-> n, cookieOptions |-> c] :
        n \in {Undefined, <<"custom_session">>}, c \in CookieOptionChoices}

InitCookie ==
    /\ opts \in CookieOptionOptions
    /\ now = 0
    /\ pc = "idle"
    /\ nreq = 0
    /\ req = NoCookies
    /\ reqTime = 0
    /\ session = EmptyState
    /\ ctx = [session |-> 0]
    /\ log = <<>>
    /\ nops = 0
    /\ hops = 0
    /\ mutated = FALSE
    /\ last = NoCall
    /\ outcome = "none"
    /\ hresp = <<>>
    /\ resp = <<>>
    /\ jar = NoCookies
    /\ stored = NoValues
    /\ kept = NoValues
    /\ flashed = NoValues
    /\ carried = NoValues
    /\ touched = {}
    /\ calls = <<>>
    /\ inflight = <<>>
    /\ heap = <<>>
    /\ thisState = 0
    /\ handle = 0

NextCookie ==
    \/ MiddlewareEnter
    \/ \E k \in Keys, v \in Values : NextSet(k, v)
    \/ \E k \in Keys, v \in Values : NextFlash(k, v)
    \/ \E h \in HandlerHeaders : MiddlewareExit(h)
    \/ Receive

SpecCookie == InitCookie /\ [][NextCookie]_vars

\* ------------------------------------------------------------ properties
Name == CookieStore(opts).sessionCookieName

S == opts.expireAfterSeconds

IsSetCookie(h) == h[1] = "set-cookie"

SetCookies(headers) == SelectSeq(headers, IsSetCookie)

IsSessionCookie(h) == h[1] = "set-cookie" /\ h[2].name = Name

SessionCookies(headers) == SelectSeq(headers, IsSessionCookie)

\* The text sealed in the session cookie of the response.
RespText == SessionCookies(resp)[1][2].value.text

RespExpire ==
    IF RespText.expire = ExpireNull THEN -1
    ELSE RespText.expire[1] * MsPerSecond + RespText.expire[2]

\* The request's session cookie was sealed under the server's key and holds JSON.
Decodable ==
    /\ Name \in DOMAIN req
    /\ req[Name].kind = "sealed"
    /\ req[Name].key = opts.encryptionKey.id
    /\ req[Name].text.valid

Responded == pc = "returned" /\ outcome = "responded"

Calls(op) == Cardinality({i \in 1..Len(log) : log[i][1] = op})

CalledWith(op, arg) == \E i \in 1..Len(log) : log[i] = <<op, arg>>

\* C1 (as amended): with a positive expireAfterSeconds, while every request
\* presents the cookie of the previous response, arrives within
\* expireAfterSeconds of the previous request and before that cookie's expire
\* instant, a value stored with set(k, v) is what get(k) returns, in the same
\* and in every later request, until a handler overwrites k or calls reset.
C1_SetPersists ==
    pc = "handler" =>
        \A k \in DOMAIN kept : get(session, k).ret = kept[k]

\* C1 as stated: the same without the condition on the cookie's own expire
\* instant (a handler may have shortened it with refresh or reset).
C1_SetPersistsAsStated ==
    pc = "handler" =>
        \A k \in DOMAIN stored : get(session, k).ret = stored[k]

\* A handler of a later request has read with get(k) a value set earlier.
C1_Witness ==
    /\ pc = "handler"
    /\ nreq >= 2
    /\ hops = 1
    /\ last.op = "get"
    /\ last.key \in DOMAIN kept
    /\ last.ret = kept[last.key]
    /\ now > reqTime

\* C2: a request with a decodable cookie that has not expired, under a
\* positive expireAfterSeconds: the response cookie (the handler not having
\* changed the session) holds the entries of the incoming cookie, values and
\* flash flags, and expire = request time + expireAfterSeconds; the
\* middleware called refresh and not reset.
C2_Refresh ==
    (/\ Responded
     /\ ~mutated
     /\ Positive(S)
     /\ Decodable
     /\ ~TokenExpired(req, Name, reqTime))
    => /\ Len(SessionCookies(resp)) = 1
       /\ RespText.valid
       /\ RespText.members = req[Name].text.members
       /\ RespExpire = reqTime + S[1] * MsPerSecond
       /\ Calls("reset") = 0
       /\ Calls("refresh") = 1
       /\ CalledWith("refresh", S)

\* A refreshed cookie with a flash and a non-flash entry, the handler having
\* taken time.
C2_Witness ==
    /\ Responded
    /\ ~mutated
    /\ Positive(S)
    /\ Decodable
    /\ ~TokenExpired(req, Name, reqTime)
    /\ \E m1, m2 \in req[Name].text.members : m1[3] /\ ~m2[3]
    /\ TokenExpire(req, Name) < reqTime + S[1] * MsPerSecond
    /\ now > reqTime

\* C3: a request with a decodable cookie whose expire instant is before the
\* request time, under a positive expireAfterSeconds: the handler is given a
\* Session with no data, the response cookie (the handler not having changed
\* the session) has no data and expire = request time + expireAfterSeconds;
\* the middleware called reset and not refresh.
C3_ExpiredReset ==
    (/\ pc \in {"handler", "returned"}
     /\ Positive(S)
     /\ Decodable
     /\ TokenExpired(req, Name, reqTime))
    => /\ Calls("refresh") = 0
       /\ Calls("reset") = 1
       /\ CalledWith("reset", S)
       /\ (pc = "handler" /\ hops = 0) =>
             /\ DOMAIN session.data = {}
             /\ \A k \in Keys : get(session, k).ret = Null
       /\ (Responded /\ ~mutated) =>
             /\ Len(SessionCookies(resp)) = 1
             /\ RespText.valid
             /\ RespText.members = {}
             /\ RespExpire = reqTime + S[1] * MsPerSecond

\* The response to a request whose cookie had entries and had expired.
C3_Witness ==
    /\ Responded
    /\ ~mutated
    /\ Positive(S)
    /\ Decodable
    /\ TokenExpired(req, Name, reqTime)
    /\ req[Name].text.members # {}

\* C4: a request without a session cookie: the response cookie (the handler
\* not having changed the session) has no data and expire = request time +
\* expireAfterSeconds when that is configured (a positive number), and expire
\* null when it is not (undefined or 0); the middleware called reset once,
\* with the configured value, and never refresh.
C4_Bootstrap ==
    (/\ Responded
     /\ Name \notin DOMAIN req)
    => /\ Calls("reset") = 1
       /\ CalledWith("reset", S)
       /\ Calls("refresh") = 0
       /\ ~mutated =>
             /\ Len(SessionCookies(resp)) = 1
             /\ RespText.valid
             /\ RespText.members = {}
             /\ RespExpire = IF Positive(S) THEN reqTime + S[1] * MsPerSecond ELSE -1

\* A first response with an expire, the clock having advanced before and
\* during the request.
C4_Witness ==
    /\ Responded
    /\ Name \notin DOMAIN req
    /\ ~mutated
    /\ Positive(S)
    /\ reqTime > 0
    /\ now > reqTime

\* C5: the cookie is absent, or unsealing fails (corrupted token, other key),
\* or the unsealed text is not JSON: getSession yields null, the middleware
\* does not fail, gives the handler the Session a request without cookie
\* gets, and returns the handler's response with a session cookie.
C5_FailOpen ==
    (/\ pc \in {"handler", "returned"}
     /\ ~(opts.encryptionKey.length < MinKeyLength)
     /\ ~Decodable)
    => /\ ~getSession(CookieStore(opts), req).found
       /\ outcome # "keyerror"
       /\ Calls("setState") = 0
       /\ Calls("refresh") = 0
       /\ Calls("reset") = 1
       /\ Calls("next") = 1
       /\ ctx.session = nreq
       /\ (pc = "handler" /\ hops = 0) =>
             /\ DOMAIN session.data = {}
             /\ session = policy(CookieStore(opts), NoCookies, reqTime, S).state
       /\ (pc = "returned" /\ outcome # "handlererror") =>
             /\ outcome = "responded"
             /\ Len(SessionCookies(resp)) = 1

\* A response to a request whose cookie was sealed under the server's key
\* and held text that is not JSON.
C5_Witness ==
    /\ Responded
    /\ Name \in DOMAIN req
    /\ req[Name].kind = "sealed"
    /\ req[Name].key = opts.encryptionKey.id
    /\ ~req[Name].text.valid

\* C6: when the handler's response carries a Set-Cookie header for another
\* cookie, the response of the middleware has both Set-Cookie headers, the
\* handler's first, and the handler's other headers keep their values.
C6_HeaderMerge ==
    (/\ Responded
     /\ Len(SetCookies(hresp)) > 0)
    => /\ Len(SetCookies(resp)) = Len(SetCookies(hresp)) + 1
       /\ SetCookies(resp)[1] = SetCookies(hresp)[1]
       /\ SetCookies(resp)[Len(SetCookies(resp))][2].name = Name
       /\ \A i \in 1..Len(hresp) :
             ~IsSetCookie(hresp[i]) => \E j \in 1..Len(resp) : resp[j] = hresp[i]

\* C7: a key shorter than 32 characters makes every request fail before the
\* cookie is decoded, a Session attached, the handler invoked or a response
\* produced; a key of 32 or more characters never raises that error.
C7_KeyGuard ==
    /\ (opts.encryptionKey.length < 32 /\ nreq > 0) =>
          /\ pc # "handler"
          /\ pc = "returned" =>
                /\ outcome = "keyerror"
                /\ log = <<>>
                /\ ctx.session = 0
                /\ resp = <<>>
                /\ hresp = <<>>
    /\ opts.encryptionKey.length >= 32 => outcome # "keyerror"

\* A request that presented a cookie failed on the key.
C7_Witness ==
    /\ pc = "returned"
    /\ outcome = "keyerror"
    /\ Name \in DOMAIN req

\* A call that stores k or replaces the whole state.
Stores(c, k) == k \in c.keys \/ c.op \in {"new", "reset", "setState"}

\* No call strictly between positions i and j stores k or replaces the state.
Undisturbed(i, j, k) == \A m \in (i + 1)..(j - 1) : ~Stores(calls[m], k)

GetBetween(i, j, k) ==
    \E m \in (i + 1)..(j - 1) : calls[m].op = "get" /\ calls[m].key = k

\* C8: on one Session, after flash(k, v) the first get(k) returns v and k is
\* then no longer in data; every later get(k) returns null, as long as no
\* call in between stores k (set, flash) or replaces the state (reset,
\* setState).  The entry flash(k, v) replaced may have been a non-flash one.
C8_FlashReadOnce ==
    \A i \in 1..Len(calls) :
        calls[i].op = "flash" =>
            LET k == calls[i].key IN
            /\ \A j \in (i + 1)..Len(calls) :
                  (calls[j].op = "get" /\ calls[j].key = k /\ Undisturbed(i, j, k))
                  => calls[j].ret = IF GetBetween(i, j, k) THEN Null ELSE calls[i].value
            /\ (Undisturbed(i, Len(calls) + 1, k) /\ GetBetween(i, Len(calls) + 1, k))
                  => k \notin DOMAIN session.data

\* set(k, x), flash(k, y), get(k) = y, get(k) = null.
C8_Witness ==
    \E i \in 1..Len(calls) :
        /\ i + 3 <= Len(calls)
        /\ calls[i].op = "set"
        /\ calls[i + 1].op = "flash"
        /\ calls[i + 1].key = calls[i].key
        /\ calls[i + 1].value # calls[i].value
        /\ calls[i + 2].op = "get"
        /\ calls[i + 2].key = calls[i].key
        /\ calls[i + 2].ret = calls[i + 1].value
        /\ calls[i + 3].op = "get"
        /\ calls[i + 3].key = calls[i].key
        /\ calls[i + 3].ret = Null
        /\ calls[i].key \notin DOMAIN session.data

\* C9: a value stored with flash(k, v) in one request and not read in it is
\* what get(k) returns in the next request, when that request presents the
\* response cookie (here: before the cookie's expire instant).
C9_FlashSurvives ==
    pc = "handler" =>
        \A k \in DOMAIN carried : get(session, k).ret = carried[k]

\* C10: on one Session, after set(k, v) every get(k) returns v and k stays in
\* data, as long as no call in between stores k or replaces the state; get
\* of a key that was never stored returns null.
C10_NonFlashPersists ==
    /\ \A i \in 1..Len(calls) :
          calls[i].op = "set" =>
              LET k == calls[i].key IN
              /\ \A j \in (i + 1)..Len(calls) :
                    (calls[j].op = "get" /\ calls[j].key = k /\ Undisturbed(i, j, k))
                    => calls[j].ret = calls[i].value
              /\ Undisturbed(i, Len(calls) + 1, k)
                    => /\ k \in DOMAIN session.data
                       /\ session.data[k].value = calls[i].value
    /\ \A j \in 1..Len(calls) :
          (calls[j].op = "get" /\ \A m \in 1..(j - 1) : calls[j].key \notin calls[m].keys)
          => calls[j].ret = Null

\* set(k, v), then get(k) twice, each returning v, k still in data; then get
\* of a key never stored, returning null.
C10_Witness ==
    \E i \in 1..Len(calls) :
        /\ i + 3 = Len(calls)
        /\ calls[i].op = "set"
        /\ \A j \in (i + 1)..(i + 2) :
              /\ calls[j].op = "get"
              /\ calls[j].key = calls[i].key
              /\ calls[j].ret = calls[i].value
        /\ calls[i].key \in DOMAIN session.data
        /\ calls[i + 3].op = "get"
        /\ \A m \in 1..(i + 2) : calls[i + 3].key \notin calls[m].keys
        /\ calls[i + 3].ret = Null

\* The clock of the Session under test, as a timestamp.
Instant(ms) == <<ms \div MsPerSecond, ms % MsPerSecond>>

\* C11: isExpired() is true exactly when expire is not null and the clock is
\* strictly after it: expire = now - 1 ms is expired, expire = now and
\* expire = now + 1 ms are not, and a null expire is not, at any clock value.
C11_IsExpired ==
    \A j \in 1..Len(calls) :
        calls[j].op = "isExpired" =>
            LET expire == calls[j].value IN
            /\ expire = ExpireNull => calls[j].ret = FALSE
            /\ expire = Instant(now - 1) => calls[j].ret = TRUE
            /\ expire = Instant(now) => calls[j].ret = FALSE
            /\ expire = Instant(now + 1) => calls[j].ret = FALSE
            /\ expire # ExpireNull =>
                  (calls[j].ret <=>
                      \/ expire[1] < Instant(now)[1]
                      \/ expire[1] = Instant(now)[1] /\ expire[2] < Instant(now)[2])

\* isExpired was called with expire = now - 1 ms and returned true.
C11_Witness ==
    \E j \in 1..Len(calls) :
        /\ calls[j].op = "isExpired"
        /\ calls[j].value = Instant(now - 1)
        /\ calls[j].ret = TRUE

\* Cookie names and keys of 32 characters a CookieStore is made with.
CookieNames == {Undefined, <<"">>, <<"custom_session">>}

StoreKeys == {GoodKey, OtherKey}

\* C12: for every SessionState a Session reaches and every key of 32
\* characters and cookie name, getSession of a request carrying the cookie
\* createSetCookieHeader wrote for it, under the same key and name, returns
\* that state: same keys, values, flash flags and expire.
C12_RoundTrip ==
    \A k \in StoreKeys, n \in CookieNames :
        LET store == CookieStore([encryptionKey |-> k, sessionCookieName |-> n])
            back == getSession(store, CookiesCarrying(store, session))
        IN /\ back.found
           /\ DOMAIN back.state.data = DOMAIN session.data
           /\ \A key \in DOMAIN session.data :
                 /\ back.state.data[key].value = session.data[key].value
                 /\ back.state.data[key].flash = session.data[key].flash
           /\ back.state.expire = session.expire

\* A state with a flash and a non-flash entry and an expire, read back from
\* a cookie named custom_session.
C12_Witness ==
    /\ \E k1, k2 \in DOMAIN session.data :
          session.data[k1].flash /\ ~session.data[k2].flash
    /\ session.expire # ExpireNull
    /\ LET store == CookieStore([encryptionKey |-> OtherKey,
                                 sessionCookieName |-> <<"custom_session">>])
       IN /\ "custom_session" \in DOMAIN CookiesCarrying(store, session)
          /\ getSession(store, CookiesCarrying(store, session)).state = session

\* C13: when expireAfterSeconds is not provided, a value stored with
\* set(k, v) in one request (a non-flash entry of the response cookie) is what
\* get(k) returns in a later request that presents that cookie, whatever
\* time has passed.
C13_NoExpiry ==
    (/\ pc = "handler"
     /\ hops = 0
     /\ S = Undefined
     /\ Decodable)
    => \A m \in req[Name].text.members : ~m[3] => get(session, m[1]).ret = m[2]

OtherUnset == IF S = Undefined THEN <<0>> ELSE Undefined

\* C15: expireAfterSeconds = 0 and undefined behave alike: for the request
\* in flight (cookie absent, undecodable, valid or expired, at any clock
\* value) the middleware given the one hands the handler the Session state
\* the middleware given the other would, with expire null, and the response
\* cookie holds the state the handler left (expire null unless the handler
\* changed it).
C15_ZeroIsUndefined ==
    (/\ pc \in {"handler", "returned"}
     /\ outcome # "keyerror"
     /\ S \in {Undefined, <<0>>})
    => LET other == policy(CookieStore(opts), req, reqTime, OtherUnset).state IN
       /\ other.expire = ExpireNull
       /\ other = policy(CookieStore(opts), req, reqTime, S).state
       /\ (pc = "handler" /\ hops = 0) => session = other
       /\ Responded =>
             /\ Len(SessionCookies(resp)) = 1
             /\ RespText = JSONStringify(session)
             /\ ~mutated => RespText = JSONStringify(other)

\* With expireAfterSeconds = 0, the response to a request whose cookie had
\* entries and an expire instant not yet passed.
C15_Witness ==
    /\ Responded
    /\ S = <<0>>
    /\ Decodable
    /\ req[Name].text.members # {}
    /\ TokenExpire(req, Name) >= reqTime
    /\ ~mutated

\* Position of the first call of that name the middleware made (0: none).
FirstCall(op) ==
    IF Calls(op) = 0 THEN 0
    ELSE CHOOSE i \in 1..Len(log) :
             log[i][1] = op /\ \A j \in 1..(i - 1) : log[j][1] # op

\* C16: for every request that passes the key check, one Session is attached
\* to ctx.state.session before the handler is invoked, and the response
\* cookie encodes the state of that Session as the handler left it; for a
\* request without cookie and without expireAfterSeconds the handler finds
\* data = {} and expire = null.
C16_ContextInjection ==
    (/\ pc \in {"handler", "returned"}
     /\ outcome # "keyerror")
    => /\ Calls("attach") = 1
       /\ Calls("next") = 1
       /\ FirstCall("attach") < FirstCall("next")
       /\ ctx.session = nreq
       /\ Responded =>
             /\ FirstCall("next") < FirstCall("createSetCookieHeader")
             /\ Len(SessionCookies(resp)) = 1
             /\ RespText = JSONStringify(session)
       /\ (pc = "handler" /\ hops = 0 /\ Name \notin DOMAIN req /\ S = Undefined) =>
             session = EmptyState

\* A response whose cookie holds what the handler stored in the attached
\* Session during the request.
C16_Witness ==
    /\ Responded
    /\ mutated
    /\ last.op = "set"
    /\ ctx.session = nreq
    /\ <<last.key, session.data[last.key].value, FALSE>> \in RespText.members

\* C17: when the downstream handler raises, the middleware ends with that
\* error: it does not encode the Session, returns no response and writes no
\* Set-Cookie header.
C17_HandlerError ==
    (pc = "returned" /\ outcome = "handlererror")
    => /\ Calls("next") = 1
       /\ Calls("createSetCookieHeader") = 0
       /\ Calls("return") = 0
       /\ resp = <<>>
       /\ SetCookies(resp) = <<>>

\* The handler raised after storing a value, in a request that presented a
\* cookie.
C17_Witness ==
    /\ pc = "returned"
    /\ outcome = "handlererror"
    /\ mutated
    /\ Name \in DOMAIN req

\* The request in flight is not for a route.
NotRoute == pc # "idle" /\ "destination" \in DOMAIN ctx /\ ctx.destination # "route"

\* C18 (plugin variant): when ctx.destination is not "route" the middleware
\* returns the downstream handler's response as it is, with no Set-Cookie
\* header added, and it neither decodes the cookie nor attaches a Session to
\* the context.
C18_SkipNonRoute ==
    NotRoute
    => /\ pc \in {"passthrough", "returned"}
       /\ Calls("getSession") = 0
       /\ Calls("attach") = 0
       /\ Calls("createSetCookieHeader") = 0
       /\ ctx.session = 0
       /\ pc = "returned" =>
             /\ outcome = "skipped"
             /\ resp = hresp
             /\ SetCookies(resp) = SetCookies(hresp)
             /\ SessionCookies(resp) = SessionCookies(hresp)

\* The response to a request for a static file that presented the session
\* cookie of an earlier response, the handler having set headers.
C18_Witness ==
    /\ NotRoute
    /\ pc = "returned"
    /\ ctx.destination = "static"
    /\ Name \in DOMAIN req
    /\ hresp # <<>>
    /\ resp = hresp

\* The last call made on the Session.
LastCall == calls[Len(calls)]

\* Timestamp a is strictly later than timestamp b.
Later(a, b) == a[1] > b[1] \/ (a[1] = b[1] /\ a[2] > b[2])

\* C19: every non-null expire written by reset or refresh is strictly later
\* than the clock when it is written, whatever seconds the caller passes; it
\* is now + seconds, and null for undefined or zero.
C19_ExpireInFuture ==
    LastCall.op \in {"reset", "refresh"} =>
        /\ session.expire # ExpireNull => Later(session.expire, Instant(now))
        /\ LastCall.value \in {Undefined, <<0>>} => session.expire = ExpireNull
        /\ LastCall.value \notin {Undefined, <<0>>} =>
              session.expire = Instant(now + LastCall.value[1] * 1000)

\* C20: after reset(expireAfterSeconds?) data is empty, whatever entries,
\* flash or not, it held before, and expire is what calculateExpireDate gives
\* for the argument: null when it is omitted.
C20_ResetClears ==
    LastCall.op = "reset" =>
        /\ DOMAIN session.data = {}
        /\ \A k \in Keys : get(session, k).ret = Null
        /\ session.expire = calculateExpireDate(now, LastCall.value)
        /\ LastCall.value = Undefined => session.expire = ExpireNull
        /\ LastCall.value = <<1>> => session.expire = Instant(now + 1000)

\* reset() without argument on a Session that held a non-flash and a flash
\* entry and an expire.
C20_Witness ==
    /\ Len(calls) = 4
    /\ calls[1].keys # {}
    /\ calls[2].op = "set"
    /\ calls[3].op = "refresh"
    /\ calls[3].value = <<1>>
    /\ calls[2].key \notin calls[1].keys
    /\ calls[4].op = "reset"
    /\ calls[4].value = Undefined
    /\ session = EmptyState

\* The step is a call of that method on the Session.
CallStep(op) ==
    /\ Len(calls') = Len(calls) + 1
    /\ calls'[Len(calls')].op = op

\* C21: refresh(expireAfterSeconds) changes only expire: data has the same
\* keys, each with the same value and flash flag, after the call as before.
C21_RefreshFrame ==
    [][CallStep("refresh") =>
          /\ DOMAIN session'.data = DOMAIN session.data
          /\ \A k \in DOMAIN session.data :
                /\ session'.data[k].value = session.data[k].value
                /\ session'.data[k].flash = session.data[k].flash
          /\ session'.data = session.data]_vars

\* refresh(1) has just been called on a Session holding a flash and a
\* non-flash entry, stored by flash and set, and has written expire.
C21_Witness ==
    /\ Len(calls) = 4
    /\ calls[2].op = "set"
    /\ calls[3].op = "flash"
    /\ calls[4].op = "refresh"
    /\ calls[4].value = <<1>>
    /\ \E k1, k2 \in DOMAIN session.data :
          session.data[k1].flash /\ ~session.data[k2].flash
    /\ session.expire = Instant(now + 1000)

\* Header collections createSetCookieHeader is given: empty, the one of the
\* CookieStore test (part_011 line 137), one with another source's
\* Set-Cookie, and one that already has a Set-Cookie for the session cookie.
GivenHeaders ==
    {<<>>,
     <<<<"key1", Plain("value1")>>>>,
     <<<<"key1", Plain("value1")>>, <<"set-cookie", OtherCookie>>,
       <<"key2", Plain("value2")>>>>,
     <<<<"set-cookie", OtherCookie>>,
       <<"set-cookie", [name |-> DefaultCookieName, value |-> Garbage]>>>>}

\* C22: createSetCookieHeader appends one Set-Cookie header, the session
\* cookie, to the headers it is given: every header that was there, Set-Cookie
\* headers included, is still there, at its place and with its value.
C22_AppendsHeader ==
    \A h \in GivenHeaders, n \in CookieNames :
        LET store == CookieStore([encryptionKey |-> GoodKey, sessionCookieName |-> n])
            out == createSetCookieHeader(store, h, session)
        IN /\ Len(out) = Len(h) + 1
           /\ \A i \in 1..Len(h) : out[i] = h[i]
           /\ Len(SetCookies(out)) = Len(SetCookies(h)) + 1
           /\ out[Len(out)][1] = "set-cookie"
           /\ out[Len(out)][2].name = store.sessionCookieName
           /\ out[Len(out)][2].value = encrypt(GoodKey, JSONStringify(session))

\* The cookie of a Session with entries is added to headers that have two
\* Set-Cookie headers, one of them for the session cookie's name: all three
\* are in the result.
C22_Witness ==
    /\ DOMAIN session.data # {}
    /\ Len(calls) > 1
    /\ \E h \in GivenHeaders :
          LET out == createSetCookieHeader(
                         CookieStore([encryptionKey |-> GoodKey,
                                      sessionCookieName |-> Undefined]), h, session)
          IN /\ Len(SetCookies(h)) = 2
             /\ Len(SetCookies(out)) = 3
             /\ SetCookies(out)[1] = <<"set-cookie", OtherCookie>>
             /\ SetCookies(out)[3][2].value.text = JSONStringify(session)

\* Names of the cookies a request carries.
RequestCookieNames == {"session", "custom_session", "othercookie"}

\* The name the store's cookie has, as the options say it.
ExpectedName(n) == IF n = <<"custom_session">> THEN "custom_session" ELSE "session"

\* C23: getSession reads and createSetCookieHeader writes the cookie named
\* sessionCookieName, "session" when the option is omitted; a sealed state
\* under any other cookie name is ignored (as if there were no cookie), also
\* next to the session cookie itself.
C23_CookieName ==
    \A n \in CookieNames :
        LET store == CookieStore([encryptionKey |-> GoodKey, sessionCookieName |-> n])
            sealed == encrypt(GoodKey, JSONStringify(session))
            decoy == encrypt(GoodKey, JSONStringify(flash(session, "k1", "y")))
            written == createSetCookieHeader(store, <<>>, session)
        IN /\ store.sessionCookieName = ExpectedName(n)
           /\ n = Undefined => store.sessionCookieName = "session"
           /\ Len(written) = 1
           /\ written[1][2].name = ExpectedName(n)
           /\ \A m \in RequestCookieNames :
                 LET found == getSession(store, [c \in {m} |-> sealed]) IN
                 IF m = ExpectedName(n)
                 THEN found.found /\ found.state = session
                 ELSE found = getSession(store, NoCookies) /\ ~found.found
           /\ \A m \in RequestCookieNames \ {ExpectedName(n)} :
                 getSession(store, [c \in {m, ExpectedName(n)} |->
                                       IF c = m THEN decoy ELSE sealed]).state = session

\* A store named custom_session ignores the state of a Session with entries
\* sealed under the name session, and reads it under custom_session.
C23_Witness ==
    /\ DOMAIN session.data # {}
    /\ Len(calls) > 1
    /\ LET store == CookieStore([encryptionKey |-> GoodKey,
                                 sessionCookieName |-> <<"custom_session">>])
           sealed == encrypt(GoodKey, JSONStringify(session))
       IN /\ ~getSession(store, [c \in {"session"} |-> sealed]).found
          /\ getSession(store, [c \in {"custom_session"} |-> sealed]).found
          /\ createSetCookieHeader(store, <<>>, session)[1][2].name = "custom_session"

\* Position of the one refresh or reset the middleware called.
PolicyCall == IF Calls("refresh") = 1 THEN FirstCall("refresh") ELSE FirstCall("reset")

\* C24: for every request that passes the key check the middleware calls
\* exactly one of refresh and reset, once, after getSession and before the
\* handler; refresh exactly when the cookie decoded, has not expired and
\* expireAfterSeconds is truthy; setState once exactly when the cookie
\* decoded, between getSession and the policy call.
C24_PolicyOrdering ==
    (/\ pc \in {"handler", "returned"}
     /\ outcome # "keyerror")
    => /\ Calls("refresh") + Calls("reset") = 1
       /\ Calls("getSession") = 1
       /\ Calls("next") = 1
       /\ FirstCall("getSession") < PolicyCall
       /\ PolicyCall < FirstCall("next")
       /\ Calls("refresh") = 1 <=>
             /\ Decodable
             /\ ~TokenExpired(req, Name, reqTime)
             /\ S # Undefined
             /\ S[1] # 0
       /\ log[PolicyCall][2] = S
       /\ Calls("setState") = (IF Decodable THEN 1 ELSE 0)
       /\ Decodable =>
             /\ FirstCall("getSession") < FirstCall("setState")
             /\ FirstCall("setState") < PolicyCall

\* The handler runs for a request whose decoded cookie had expired, under a
\* positive expireAfterSeconds: getSession, setState, reset, attach, next.
C24_Witness ==
    /\ pc = "handler"
    /\ Positive(S)
    /\ Decodable
    /\ TokenExpired(req, Name, reqTime)
    /\ [i \in 1..Len(log) |-> log[i][1]] =
          <<"getSession", "setState", "reset", "attach", "next">>

\* The entries of the response cookie stored under key k.
RespMembers(k) == {m \in RespText.members : m[1] = k}

\* C25: nothing is written to the response while the handler runs; the
\* cookie is encoded after the handler returned and holds the Session's state
\* at that moment, so what the handler did is in it: values it set or
\* flashed, a flash entry its get consumed (gone), reset (no entries),
\* refresh (the new expire), setState (the state given).
C25_WriteBack ==
    /\ pc = "handler" =>
          /\ resp = <<>>
          /\ Calls("createSetCookieHeader") = 0
    /\ Responded =>
          /\ Calls("createSetCookieHeader") = 1
          /\ FirstCall("next") < FirstCall("createSetCookieHeader")
          /\ Len(SessionCookies(resp)) = 1
          /\ RespText = JSONStringify(session)
          /\ \A k \in DOMAIN flashed : RespMembers(k) = {<<k, flashed[k], TRUE>>}
          /\ \A k \in DOMAIN kept : RespMembers(k) = {<<k, kept[k], FALSE>>}
          /\ (last.op = "get" /\ last.ret # Null) =>
                RespMembers(last.key) \subseteq {<<last.key, last.ret, FALSE>>}
          /\ (/\ last.op = "get"
              /\ hops = 1
              /\ Decodable
              /\ <<last.key, last.ret, TRUE>> \in req[Name].text.members)
             => RespMembers(last.key) = {}
          /\ last.op = "reset" => RespText.members = {}
          /\ last.op = "refresh" =>
                \E e \in HandlerRefreshArgs :
                    RespText.expire = Instant(now + e[1] * 1000)
          /\ last.op = "setState" =>
                \E s \in HandlerStates : RespText = JSONStringify(s)

\* The response to a request whose handler read with get a flash entry the
\* request's cookie carried: the response cookie no longer has it.
C25_Witness ==
    /\ Responded
    /\ Decodable
    /\ hops = 1
    /\ last.op = "get"
    /\ <<last.key, last.ret, TRUE>> \in req[Name].text.members
    /\ RespMembers(last.key) = {}
    /\ RespText # req[Name].text

\* The text sealed in the session cookie of request r's response.
ResponseText(r) ==
    SelectSeq(inflight[r].resp, IsSessionCookie)[1][2].value.text

\* C26: requests in flight at once each have a Session of their own: what a
\* handler's calls return, the state its Session holds and the cookie of its
\* response are what they would be had the request been served alone,
\* whatever set, flash, get, reset or refresh the other request performs.
C26_Isolation ==
    \A r \in Requests :
        /\ \A q \in Requests \ {r} :
              inflight[r].ref # 0 => inflight[q].ref # inflight[r].ref
        /\ inflight[r].pc = "handler" => heap[inflight[r].ref] = inflight[r].own
        /\ Len(inflight[r].hist) = Len(inflight[r].solo)
        /\ \A i \in 1..Len(inflight[r].hist) :
              inflight[r].hist[i][3] = inflight[r].solo[i]
        /\ inflight[r].pc = "sealing" => inflight[r].sealing = inflight[r].own
        /\ inflight[r].pc = "returned" =>
              /\ Len(SelectSeq(inflight[r].resp, IsSessionCookie)) = 1
              /\ ResponseText(r) = JSONStringify(inflight[r].own)

\* Two requests presented the same cookie and were in their handlers at
\* once; one has reset its Session, and the other's response, returned after
\* that, still carries the cookie's entries.
C26_Witness ==
    \E r, q \in Requests :
        /\ r # q
        /\ inflight[r].req = inflight[q].req
        /\ inflight[q].pc = "handler"
        /\ inflight[q].hist = <<<<"reset", "", Null>>>>
        /\ inflight[r].pc = "returned"
        /\ inflight[r].hist = <<>>
        /\ ResponseText(r).members # {}
        /\ heap[inflight[q].ref].data = EmptyData

\* The handler of request r got v from get(k) before storing k or resetting:
\* the value came with the request's cookie.
ObtainedCarried(r, k, v) ==
    \E i \in 1..Len(inflight[r].hist) :
        /\ inflight[r].hist[i] = <<"get", k, v>>
        /\ \A j \in 1..(i - 1) :
              inflight[r].hist[j][1] # "reset" /\ inflight[r].hist[j][2] # k

\* C27: a flash entry is returned by get once over its lifetime: of two
\* requests that present the cookie carrying it, at once or one after the
\* other, at most one handler obtains its value from get(k).
C27_FlashOnceAcrossRequests ==
    \A r, q \in Requests :
        (/\ r # q
         /\ inflight[r].req = inflight[q].req
         /\ Name \in DOMAIN inflight[r].req)
        => \A m \in inflight[r].req[Name].text.members :
              m[3] => ~(ObtainedCarried(r, m[1], m[2]) /\ ObtainedCarried(q, m[1], m[2]))

\* The token was sealed under the server's key and holds JSON.
ServerSealed(token) ==
    /\ token.kind = "sealed"
    /\ token.key = opts.encryptionKey.id
    /\ token.text.valid

\* C28: when the handler is invoked the Session's data is empty or is the
\* data of the request's cookie, sealed under the server's key; a cookie that
\* was not sealed under that key contributes no entry; and every cookie
\* sealed under the server's key that reaches the client was encoded by the
\* middleware from a Session's state.
C28_Integrity ==
    [][/\ (pc = "idle" /\ pc' = "handler") =>
             /\ \/ session'.data = EmptyData
                \/ /\ Name \in DOMAIN req'
                   /\ ServerSealed(req'[Name])
                   /\ session'.data = JSONParse(req'[Name].text).data
             /\ (Name \in DOMAIN req' /\ ~ServerSealed(req'[Name])) =>
                   /\ session'.data = EmptyData
                   /\ \A k \in Keys : get(session', k).ret = Null
       /\ (/\ Name \in DOMAIN jar'
           /\ ServerSealed(jar'[Name])
           /\ Name \in DOMAIN jar => jar[Name] # jar'[Name]) =>
             /\ Responded
             /\ jar'[Name] = SessionCookies(resp)[1][2].value
             /\ jar'[Name].text = JSONStringify(session)]_vars

\* After a request was served, the handler is invoked for a request whose
\* cookie holds entries and was sealed under another key: its Session has
\* no data.
C28_Witness ==
    /\ pc = "handler"
    /\ hops = 0
    /\ nreq >= 2
    /\ Name \in DOMAIN req
    /\ req[Name].kind = "sealed"
    /\ req[Name].key = OtherKey.id
    /\ req[Name].text.members # {}
    /\ session.data = EmptyData

\* C29 (as amended): with a positive expireAfterSeconds, while no handler
\* has called reset, refresh or setState, the expire in each response cookie
\* is the request's time + expireAfterSeconds and is not earlier than the
\* expire of the cookie the request presented.
C29_SlidingExpiry ==
    (/\ Responded
     /\ Positive(S)
     /\ touched = {})
    => /\ Len(SessionCookies(resp)) = 1
       /\ RespExpire = reqTime + S[1] * 1000
       /\ RespExpire >= TokenExpire(req, Name)

\* C29 as stated: the same while no handler has called reset or refresh (a
\* handler may have called setState).
C29_SlidingExpiryAsStated ==
    (/\ Responded
     /\ Positive(S)
     /\ touched \cap {"reset", "refresh"} = {})
    => /\ Len(SessionCookies(resp)) = 1
       /\ RespExpire = reqTime + S[1] * 1000
       /\ RespExpire >= TokenExpire(req, Name)

\* The third response of a chain, each request made later than the one
\* before and presenting an unexpired cookie with an entry: its expire is
\* later than that of the cookie presented.
C29_Witness ==
    /\ Responded
    /\ Positive(S)
    /\ touched = {}
    /\ nreq = 3
    /\ Decodable
    /\ req[Name].text.members # {}
    /\ TokenExpire(req, Name) > S[1] * 1000
    /\ ~TokenExpired(req, Name, reqTime)
    /\ RespExpire > TokenExpire(req, Name)

\* C30: every response to a request that passed the key check (and, in the
\* plugin variant, is for a route) and whose handler returned has exactly one
\* Set-Cookie header for the session cookie's name, whether or not the
\* handler touched the Session, and its value unseals under the configured
\* key to the Session's final state.
C30_AlwaysSetsCookie ==
    (Responded /\ ~NotRoute)
    => /\ Len(SessionCookies(resp)) = 1
       /\ ~DecryptThrows(opts.encryptionKey, SessionCookies(resp)[1][2].value)
       /\ LET back == getSession(CookieStore(opts), StoreCookies(NoCookies, resp, Name))
          IN /\ back.found
             /\ back.state = session

\* The response to a route request without cookie whose handler did not
\* touch the Session and set a cookie of its own under the session cookie's
\* name.
C30_Witness ==
    /\ Responded
    /\ "destination" \in DOMAIN ctx
    /\ ctx.destination = "route"
    /\ hops = 0
    /\ Name \notin DOMAIN req
    /\ Len(SessionCookies(hresp)) = 1
    /\ Len(SessionCookies(resp)) = 1
    /\ SessionCookies(resp)[1][2].value.text = JSONStringify(session)

\* C31: whatever the request's cookie holds, also a value that unseals and
\* parses to JSON that is not a SessionState, the middleware raises no error
\* before the handler, and the Session the handler is given has a data
\* mapping and an expire, so that get, set and flash do not fail.
C31_WellFormedAtEntry ==
    /\ outcome # "typeerror"
    /\ pc = "handler" =>
          /\ HasData(session)
          /\ "expire" \in DOMAIN session
    /\ last.ret # "TypeError"

\* The call the step makes on the Session.
NewCall == calls'[Len(calls')]

\* C32: set(k, v) and flash(k, v) replace the whole entry for k, value and
\* flash flag (false after set, true after flash, whatever the entry was),
\* and leave the entries of the other keys and expire as they were.
C32_SetFlashFrame ==
    [][(CallStep("set") \/ CallStep("flash")) =>
          /\ DOMAIN session'.data = DOMAIN session.data \cup {NewCall.key}
          /\ session'.data[NewCall.key] =
                [value |-> NewCall.value, flash |-> NewCall.op = "flash"]
          /\ \A k \in DOMAIN session.data \ {NewCall.key} :
                session'.data[k] = session.data[k]
          /\ session'.expire = session.expire]_vars

\* set(k, v) has just replaced a flash entry by a persistent one with
\* another value, on a Session that has an expire and a flash entry for the
\* other key.
C32_Witness ==
    /\ Len(calls) = 3
    /\ calls[2].op = "flash"
    /\ calls[2].key \notin calls[1].keys
    /\ calls[3].op = "set"
    /\ calls[3].key \in calls[1].keys
    /\ session.expire # ExpireNull
    /\ session.data[calls[3].key] = [value |-> "x", flash |-> FALSE]
    /\ session.data[calls[2].key].flash

\* C33: get(k) changes nothing but a flash entry for k: for an absent key
\* or a persistent entry the state after the call is the state before it;
\* for a flash entry k is removed, and the other entries and expire stay.
C33_GetFrame ==
    [][CallStep("get") =>
          IF NewCall.key \in DOMAIN session.data /\ session.data[NewCall.key].flash
          THEN /\ DOMAIN session'.data = DOMAIN session.data \ {NewCall.key}
               /\ \A k \in DOMAIN session'.data : session'.data[k] = session.data[k]
               /\ session'.expire = session.expire
          ELSE session' = session]_vars

\* get(k) has just consumed a flash entry of a Session that has an expire;
\* the flash entry of the other key is still there.
C33_Witness ==
    /\ Len(calls) = 3
    /\ calls[2].op = "flash"
    /\ calls[2].key \notin calls[1].keys
    /\ calls[3].op = "get"
    /\ calls[3].key \in calls[1].keys
    /\ calls[3].ret = "y"
    /\ session.expire # ExpireNull
    /\ DOMAIN session.data = {calls[2].key}
    /\ session.data[calls[2].key].flash

\* The request presents a cookie sealed under the server's key whose state
\* is data = {} and expire = null.
PresentsEmptyState ==
    /\ Decodable
    /\ "members" \in DOMAIN req[Name].text
    /\ req[Name].text.members = {}
    /\ req[Name].text.expire = ExpireNull

\* C34: when the handler's last call was reset() without argument, the
\* cookie of the response holds data = {} and expire = null, also with
\* expireAfterSeconds configured; and a request that presents a cookie
\* holding that state, with expireAfterSeconds = S configured, is not taken
\* for expired: the Session is refreshed, not reset, and the handler finds
\* data = {} and expire = request time + S.
C34_BareReset ==
    /\ (Responded /\ last.op = "reset" /\ last.arg = Undefined)
       => /\ Len(SessionCookies(resp)) = 1
          /\ RespText.members = {}
          /\ RespText.expire = ExpireNull
    /\ (pc = "handler" /\ hops = 0 /\ PresentsEmptyState /\ Positive(S))
       => /\ Calls("reset") = 0
          /\ CalledWith("refresh", S)
          /\ session = [data |-> EmptyData,
                        expire |-> Instant(reqTime + S[1] * MsPerSecond)]

\* The second request of a chain whose only handler call so far was a
\* reset, with expireAfterSeconds configured: it presents the cookie with
\* data = {} and expire = null, and its response carries expire = request
\* time + S.
C34_Witness ==
    /\ Responded
    /\ Positive(S)
    /\ nreq = 2
    /\ nops = 1
    /\ hops = 0
    /\ touched = {"reset"}
    /\ PresentsEmptyState
    /\ RespText.members = {}
    /\ RespExpire = reqTime + S[1] * MsPerSecond

\* The cookie the claim describes: the name is sessionCookieName, the value
\* the seal of the serialized state, and every other attribute is the one
\* cookieOptions gives.
ManagedCookie(store, state) ==
    [k \in {"name", "value"} \cup DOMAIN store.cookieOptions |->
        CASE k = "name" -> store.sessionCookieName
          [] k = "value" -> encrypt(store.encryptionKey, JSONStringify(state))
          [] OTHER -> store.cookieOptions[k]]

\* C35: whatever cookieOptions holds, the response of the middleware has a
\* Set-Cookie header whose name is sessionCookieName and whose value is the
\* seal of the Session's serialized state, cookieOptions giving only its
\* other attributes.
C35_NameValueManaged ==
    Responded =>
        \E i \in 1..Len(resp) :
            /\ resp[i][1] = "set-cookie"
            /\ resp[i][2] = ManagedCookie(CookieStore(opts), session)

\* A handle has been obtained, and since the last getState() none of the
\* methods ops has been called on the Session.
HandleSince(ops) ==
    /\ handle # 0
    /\ \E i \in 1..Len(calls) :
          /\ calls[i].op = "getState"
          /\ \A j \in (i + 1)..Len(calls) : calls[j].op \notin ops \cup {"getState"}

\* C36 as stated: after getState() and any later calls of set, flash, get,
\* refresh and reset on the Session, the object getState() returned holds
\* the state another getState() would give.
C36_HandleObserves ==
    HandleSince({"setState"}) => heap[handle] = heap[thisState]

\* C36, amended: the same for later calls of set, flash, get and refresh,
\* while the Session has not been reset.
C36_HandleObservesUntilReset ==
    HandleSince({"setState", "reset"}) => heap[handle] = heap[thisState]

\* After getState() on a Session holding a flash entry and an expire, set,
\* get of the flash entry and refresh were called: the object getState()
\* returned holds the entry set and the new expire, and not the flash entry.
C36_Witness ==
    /\ Len(calls) = 5
    /\ calls[1].keys # {}
    /\ calls[2].op = "getState"
    /\ calls[3].op = "set"
    /\ calls[3].key \notin calls[1].keys
    /\ calls[4].op = "get"
    /\ calls[4].ret = "y"
    /\ calls[5].op = "refresh"
    /\ now = 0
    /\ handle = 1
    /\ DOMAIN heap[handle].data = {calls[3].key}
    /\ heap[handle].expire = Instant(MsPerSecond)
    /\ heap[handle].expire # ExpireNull

====
